---- MODULE Spec2Model ----
(***************************************************************************)
(* Model of the two structure builders of the repository:                  *)
(*   - mk_esnikeys (src/esnistuff/mk_esnikeys.c): ESNIKeys 0xff01/0xff02   *)
(*   - echo_main / mk_echoconfig (src/apps/echo.c): ECHOConfig 0xff03      *)
(* One run of the model is one invocation of one of the two programs.      *)
(* SpecPrr runs the zone fragment writer fp_esni_prr alone, on buffers and *)
(* owner names of its own.                                                 *)
(* Strings are sequences of character codes (ASCII), bytes are 0..255.     *)
(* Output artifacts are identified by their role (private key file,        *)
(* public file, zone fragment, ...), not by their file name.               *)
(***************************************************************************)
EXTENDS Integers, Sequences, FiniteSets, TLC

VARIABLES
    prog,           \* which program runs: "mk_esnikeys" or "echo"
    pc,             \* position in the program
    argv,           \* command-line options not yet handed out by getopt/opt_next
    ekversion,      \* mk_esnikeys: ekversion; echo: echo_version
    cover_name,     \* mk_esnikeys: cover_name memory; echo: public_name (NULLP when NULL)
    name_arg,       \* the name as given with -P / -public_name (NULLP when not given)
    cnlen,          \* mk_esnikeys: cnlen; echo: pnlen
    includeaddrset, \* mk_esnikeys: includeaddrset
    asetfname,      \* mk_esnikeys: TRUE when -A came with a file name
    duration,       \* mk_esnikeys: duration
    outsel,         \* echo: the output options given, subset of {"pubout","privout","pemout"}
    alines,         \* lines of the address file / addresses of the resolver
    ai,             \* number of entries of alines already handed to add2alist
    ips,            \* mk_esnikeys: ips[0..nips-1]
    tmpebuf,        \* mk_esnikeys: tmpebuf[0..tp-tmpebuf-1]
    ei,             \* index of the next address to encode
    extvals,        \* mk_esnikeys: extvals[0..extlen-1]
    public,         \* the public key bytes
    keygen,         \* TRUE once a key pair was generated
    nb,             \* mk_esnikeys: nb (not-before time)
    bbuf,           \* the structure buffer bbuf[0..bblen-1]
    b64,            \* echo: the Base64 text written to echoconfig
    dumps,          \* mk_esnikeys: buffers printed on stdout, in order
    artifacts,      \* roles of the output files opened for writing
    pubout,         \* bytes written to the public (ESNIKeys / ECHOConfig) file
    fragout,        \* text written to the zone fragment file
    ub,             \* undefined behaviour committed so far (set of tags)
    exitcode,       \* -1 while running; exit status / return value at the end
    err             \* diagnostic of a failed run ("" when none)

vars == <<prog, pc, argv, ekversion, cover_name, name_arg, cnlen, includeaddrset,
          asetfname, duration, outsel, alines, ai, ips, tmpebuf, ei, extvals,
          public, keygen, nb, bbuf, b64, dumps, artifacts, pubout, fragout,
          ub, exitcode, err>>

----------------------------------------------------------------------------
(* Program constants *)

MAX_ESNIKEYS_BUFLEN == 1024
MAX_ESNI_COVER_NAME == 254
MAX_ESNI_ADDRS == 16
\* openssl/echo.h and crypto/hpke.h are not among the sources at hand: the
\* capacity of the ECHOConfig buffers is taken to be that of the ESNIKeys
\* buffer, the KEM id of X25519 is 0x0020
MAX_ECHOCONFIGS_BUFLEN == 1024
HPKE_KEM_ID_25519 == 32
DefaultDuration == 604800
MinDuration == 3600

(* Bounds of the model *)

MaxArgs == 3        \* options on a command line
MaxLines == 2       \* lines of a freely composed address file

----------------------------------------------------------------------------
(* Strings and bytes *)

NULLP == <<-1>>     \* the NULL pointer, where a string is expected

Ord == ("0" :> 48) @@ ("1" :> 49) @@ ("2" :> 50) @@ ("3" :> 51) @@ ("4" :> 52)
    @@ ("5" :> 53) @@ ("6" :> 54) @@ ("7" :> 55) @@ ("8" :> 56) @@ ("9" :> 57)
    @@ ("a" :> 97) @@ ("b" :> 98) @@ ("c" :> 99) @@ ("d" :> 100) @@ ("e" :> 101)
    @@ ("f" :> 102) @@ ("x" :> 120) @@ ("." :> 46) @@ (":" :> 58) @@ ("#" :> 35)

Str(t) == [i \in 1..Len(t) |-> Ord[t[i]]]

Rep(c, n) == [i \in 1..n |-> c]

Zeros(n) == Rep(0, n)

Hi(x) == (x \div 256) % 256     \* (x>>8)%256

Lo(x) == x % 256

\* s[i] of a C string held without its terminator: 0 at and past the end (1-based i)
CharAt(s, i) == IF i <= Len(s) THEN s[i] ELSE 0

\* strlen(s): number of characters before the first 0
strlen(s) ==
    LET Z == {i \in 1..Len(s) : s[i] = 0}
    IN  IF Z = {} THEN Len(s) ELSE (CHOOSE i \in Z : \A j \in Z : i <= j) - 1

Min(a, b) == IF a <= b THEN a ELSE b

\* strncmp(a,b,n)==0: the characters agree up to the end of a, at most n of them
strncmp0(a, b, n) ==
    \A i \in 1..Min(n, strlen(a) + 1) : CharAt(a, i) = CharAt(b, i)

HasColon(s) == \E i \in 1..Len(s) : s[i] = 58

\* ss[lo] \o ... \o ss[hi]
RECURSIVE ConcatRange(_, _, _)
ConcatRange(ss, lo, hi) ==
    IF lo > hi THEN <<>>
    ELSE IF lo = hi THEN ss[lo]
    ELSE ConcatRange(ss, lo, (lo + hi) \div 2) \o ConcatRange(ss, (lo + hi) \div 2 + 1, hi)

Concat(ss) == ConcatRange(ss, 1, Len(ss))

----------------------------------------------------------------------------
(* Library functions the programs call *)

IsDigit(ch) == ch >= 48 /\ ch <= 57

IsXDigit(ch) == IsDigit(ch) \/ (ch >= 97 /\ ch <= 102) \/ (ch >= 65 /\ ch <= 70)

XVal(ch) == IF IsDigit(ch) THEN ch - 48 ELSE IF ch >= 97 THEN ch - 87 ELSE ch - 55

\* inet_pton(AF_INET, ...): the scan of the text, one character at a time.
\* done = octets completed, cur = octet being read, saw = saw_digit.
\* Result: the 4 address bytes, or <<>> when the text is rejected.
RECURSIVE pton4Scan(_, _, _, _, _)
pton4Scan(s, i, done, cur, saw) ==
    IF CharAt(s, i) = 0
    THEN IF saw /\ Len(done) = 3 THEN Append(done, cur) ELSE <<>>
    ELSE LET ch == s[i] IN
         IF IsDigit(ch)
         THEN LET new == cur * 10 + (ch - 48) IN
              IF saw /\ cur = 0 THEN <<>>
              ELSE IF new > 255 THEN <<>>
              ELSE IF ~saw /\ Len(done) + 1 > 4 THEN <<>>
              ELSE pton4Scan(s, i + 1, done, new, TRUE)
         ELSE IF ch = 46 /\ saw
         THEN IF Len(done) + 1 = 4 THEN <<>>
              ELSE pton4Scan(s, i + 1, Append(done, cur), 0, FALSE)
         ELSE <<>>

inet_pton4(s) == pton4Scan(s, 1, <<>>, 0, FALSE)

\* the tail of inet_pton(AF_INET6, ...): the "::" gap is filled with zeros
pton6Finish(out, colonp) ==
    IF colonp >= 0
    THEN IF Len(out) = 16 THEN <<>>
         ELSE SubSeq(out, 1, colonp) \o Zeros(16 - Len(out))
                \o SubSeq(out, colonp + 1, Len(out))
    ELSE IF Len(out) = 16 THEN out ELSE <<>>

\* inet_pton(AF_INET6, ...): out = bytes written (tp), colonp = position of "::"
\* in out (-1 when none), curtok = start of the current group, saw = saw_xdigit,
\* val/nd = value and number of digits of the current group.
RECURSIVE pton6Scan(_, _, _, _, _, _, _, _)
pton6Scan(s, i, out, colonp, curtok, saw, val, nd) ==
    IF CharAt(s, i) = 0
    THEN IF saw
         THEN IF Len(out) + 2 > 16 THEN <<>>
              ELSE pton6Finish(out \o <<Hi(val), Lo(val)>>, colonp)
         ELSE pton6Finish(out, colonp)
    ELSE LET ch == s[i] IN
         IF IsXDigit(ch)
         THEN IF nd + 1 > 4 THEN <<>>
              ELSE pton6Scan(s, i + 1, out, colonp, curtok, TRUE,
                             val * 16 + XVal(ch), nd + 1)
         ELSE IF ch = 58
         THEN IF ~saw
              THEN IF colonp >= 0 THEN <<>>
                   ELSE pton6Scan(s, i + 1, out, Len(out), i + 1, FALSE, 0, 0)
              ELSE IF CharAt(s, i + 1) = 0 THEN <<>>
              ELSE IF Len(out) + 2 > 16 THEN <<>>
              ELSE pton6Scan(s, i + 1, out \o <<Hi(val), Lo(val)>>, colonp,
                             i + 1, FALSE, 0, 0)
         ELSE IF ch = 46 /\ Len(out) + 4 <= 16
                 /\ inet_pton4(SubSeq(s, curtok, strlen(s))) # <<>>
         THEN pton6Finish(out \o inet_pton4(SubSeq(s, curtok, strlen(s))), colonp)
         ELSE <<>>

inet_pton6(s) ==
    IF CharAt(s, 1) = 58
    THEN IF CharAt(s, 2) # 58 THEN <<>>
         ELSE pton6Scan(s, 2, <<>>, -1, 2, FALSE, 0, 0)
    ELSE pton6Scan(s, 1, <<>>, -1, 1, FALSE, 0, 0)

\* SHA256, as an abstract digest: a function of the whole byte sequence that
\* returns 32 bytes (a running polynomial value, spread over the 32 bytes)
\* <<value, weight>> of buf[lo..hi]: value = sum of (buf[i]+1) * 31^(hi-i),
\* weight = 31^(hi-lo+1), both modulo the prime 32749
RECURSIVE DigestRange(_, _, _)
DigestRange(buf, lo, hi) ==
    IF lo > hi THEN <<0, 1>>
    ELSE IF lo = hi THEN <<(buf[lo] + 1) % 32749, 31>>
    ELSE LET mid == (lo + hi) \div 2
             l == DigestRange(buf, lo, mid)
             r == DigestRange(buf, mid + 1, hi)
         IN  <<(l[1] * r[2] + r[1]) % 32749, (l[2] * r[2]) % 32749>>

SHA256(buf) ==
    LET h == DigestRange(buf, 1, Len(buf))[1]
    IN  [k \in 1..32 |-> (h \div (k * k) + k * (h % 251) + Len(buf)) % 256]

\* EVP_EncodeBlock: standard Base64 with padding, as character codes
B64Char(v) ==
    IF v < 26 THEN 65 + v
    ELSE IF v < 52 THEN 97 + (v - 26)
    ELSE IF v < 62 THEN 48 + (v - 52)
    ELSE IF v = 62 THEN 43 ELSE 47

B64Group(buf, g) ==
    LET base == 3 * (g - 1)
        n    == Len(buf) - base
        b1   == buf[base + 1]
        b2   == IF n >= 2 THEN buf[base + 2] ELSE 0
        b3   == IF n >= 3 THEN buf[base + 3] ELSE 0
    IN  << B64Char(b1 \div 4),
           B64Char((b1 % 4) * 16 + b2 \div 16),
           IF n >= 2 THEN B64Char((b2 % 16) * 4 + b3 \div 64) ELSE 61,
           IF n >= 3 THEN B64Char(b3 % 64) ELSE 61 >>

EVP_EncodeBlock(buf) ==
    LET ng == (Len(buf) + 2) \div 3
    IN  [k \in 1..(4 * ng) |-> B64Group(buf, ((k - 1) \div 4) + 1)[((k - 1) % 4) + 1]]

----------------------------------------------------------------------------
(* Helper functions of the programs *)

\* verstr2us: lv is strtol's result for the argument
verstr2us(lv) == IF lv < 65535 /\ lv > 0 THEN lv % 65536 ELSE 0

\* the loop of add2alist: is some ips[i] equal to line on the first strlen(line) characters
add2alist_found(list, line) ==
    \E i \in 1..Len(list) : strncmp0(list[i], line, strlen(line))

\* add2alist: [rv, ips]; rv = 0 added, 1 already present, -99 stands for exit(1)
add2alist(list, line) ==
    IF Len(list) = 0 THEN [rv |-> 0, ips |-> <<line>>]
    ELSE IF add2alist_found(list, line) THEN [rv |-> 1, ips |-> list]
    ELSE IF Len(list) = MAX_ESNI_ADDRS THEN [rv |-> -99, ips |-> list]
    ELSE [rv |-> 0, ips |-> Append(list, line)]

\* mutant: the digest is taken over buf_len-1 bytes
esni_checksum_gen_short(buf) ==
    SubSeq(SHA256([i \in 1..(Len(buf) - 1) |-> IF i >= 3 /\ i <= 6 THEN 0 ELSE buf[i]]), 1, 4)

\* esni_checksum_gen: the copy with bytes 2..5 zeroed, hashed; the first 4 digest bytes
ZeroCksum(buf) == [i \in 1..Len(buf) |-> IF i >= 3 /\ i <= 6 THEN 0 ELSE buf[i]]

esni_checksum_gen(buf) == SubSeq(SHA256(ZeroCksum(buf)), 1, 4)

----------------------------------------------------------------------------
(* Inputs *)

V_FF01 == 65281
V_FF02 == 65282
V_FF03 == 65283

MaxDuration == DefaultDuration * 52 * 10

Opt(o, n, t) == [opt |-> o, num |-> n, str |-> t]

NameA == Str(<<"a">>)
NameADot == Str(<<"a", ".">>)
LongName == Rep(97, MAX_ESNI_COVER_NAME)
TooLongName == Rep(97, MAX_ESNI_COVER_NAME + 1)

\* the options of mk_esnikeys tried: -V, -P, -A [file], -d, -h
EsniOpts ==
       {Opt("V", n, <<>>) : n \in {V_FF01, V_FF02, V_FF03, 65536 + V_FF02}}
  \cup {Opt("P", 0, t) : t \in {<<>>, NameA, NameADot, LongName, TooLongName}}
  \cup {Opt("A", n, <<>>) : n \in {0, 1}}
  \cup {Opt("d", n, <<>>) : n \in {0, MinDuration - 1, MinDuration, MaxDuration}}
  \cup {Opt("h", 0, <<>>)}

\* the options of the echo command tried
EchoOpts ==
       {Opt("echo_version", n, <<>>) : n \in {V_FF01, V_FF03, 65536 + V_FF03}}
  \cup {Opt("public_name", 0, t) :
           t \in {<<>>, NameA, LongName, Rep(97, 720), Rep(97, 1100)}}
  \cup {Opt(o, 0, <<>>) : o \in {"pubout", "privout", "pemout", "help"}}

Seqs(S, n) == UNION {[1..k -> S] : k \in 0..n}

\* getopt reports a missing argument of -A only for the last word of the command line
EsniArgvs ==
    {a \in Seqs(EsniOpts, MaxArgs) :
        \A i \in 1..Len(a) : (a[i].opt = "A" /\ a[i].num = 0) => i = Len(a)}

EchoArgvs == Seqs(EchoOpts, MaxArgs)

\* address texts
Dec(k) == IF k < 10 THEN <<48 + k>> ELSE <<48 + (k \div 10), 48 + (k % 10)>>

Hex(k) == IF k < 10 THEN 48 + k ELSE 87 + k

Addr4(k) == Str(<<"1", "0", ".", "0", ".", "0", ".">>) \o Dec(k)

Addr6(k) == Str(<<":", ":">>) \o (IF k < 16 THEN <<Hex(k)>> ELSE <<Hex(k \div 16), Hex(k % 16)>>)

AddrPool == {Addr4(1), Addr4(10), Addr6(1), Str(<<"x">>)}

Comment == Str(<<"#", "c">>)

NL(s) == Append(s, 10)

\* address files: every file of at most MaxLines lines over the pool (with a
\* comment line), and some long ones; a line is what getline returns
AddrFiles ==
       Seqs({NL(s) : s \in AddrPool \cup {Comment}}, MaxLines)
  \cup {[i \in 1..n |-> NL(Addr4(i))] : n \in {16, 17}}
  \cup {[i \in 1..17 |-> NL(Addr4(18 - i))]}
  \cup {[i \in 1..17 |-> NL(Addr4(IF i = 17 THEN 3 ELSE i))]}
  \cup {[i \in 1..16 |-> NL(Addr6(i))]}
  \cup {<<NL(Addr4(1)), Addr4(10)>>}

\* what getaddrinfo/inet_ntop hand over for the cover name
ResolverResults ==
    {<<Addr4(1)>>, <<Addr4(1), Addr6(1)>>, <<Addr6(1), Addr4(1), Addr6(1)>>, <<>>}

Key1 == [i \in 1..32 |-> i]
Key2 == [i \in 1..32 |-> 256 - i]
Keys == {Key1, Key2}

\* a time_t value hi * 2^16 + lo, held as its two parts (lo in 0 .. 2^16 - 1)
TimeT(h, l) == [hi |-> h, lo |-> l]

\* t + d, for d of int range
TimeAdd(t, d) ==
    LET s == t.lo + (d % 65536)
    IN  TimeT(t.hi + (d \div 65536) + (s \div 65536), s % 65536)

\* what time(0) returns: 1552435200 (March 2019) and 2^32 - 1000 (February 2106)
Times == {TimeT(23688, 18432), TimeT(65535, 64536)}

----------------------------------------------------------------------------
(* Initial states: the command line is chosen, nothing has run *)

Init ==
    /\ prog \in {"mk_esnikeys", "echo"}
    /\ argv \in (IF prog = "mk_esnikeys" THEN EsniArgvs ELSE EchoArgvs)
    /\ pc = "getopt"
    /\ ekversion = (IF prog = "mk_esnikeys" THEN V_FF01 ELSE V_FF03)
    /\ cover_name = NULLP
    /\ name_arg = NULLP
    /\ cnlen = 0
    /\ includeaddrset = 0
    /\ asetfname = FALSE
    /\ duration = DefaultDuration
    /\ outsel = {}
    /\ alines = <<>>
    /\ ai = 0
    /\ ips = <<>>
    /\ tmpebuf = <<>>
    /\ ei = 0
    /\ extvals = <<>>
    /\ public = <<>>
    /\ keygen = FALSE
    /\ nb = TimeT(0, 0)
    /\ bbuf = <<>>
    /\ b64 = <<>>
    /\ dumps = <<>>
    /\ artifacts = {}
    /\ pubout = <<>>
    /\ fragout = <<>>
    /\ ub = {}
    /\ exitcode = -1
    /\ err = ""

\* the variables of the option phase / of the address phase / of the build
optVars == <<ekversion, cover_name, name_arg, cnlen, includeaddrset, asetfname, duration, outsel>>
asetVars == <<alines, ai, ips, tmpebuf, ei, extvals>>
buildVars == <<public, keygen, nb, bbuf, b64, dumps>>
outVars == <<artifacts, pubout, fragout>>

\* leave the program with status code and diagnostic msg
Exit(code, msg) ==
    /\ pc' = "exit"
    /\ exitcode' = code
    /\ err' = msg

----------------------------------------------------------------------------
(* mk_esnikeys: options and input checks *)

\* one round of the getopt loop
Getopt ==
    /\ prog = "mk_esnikeys" /\ pc = "getopt" /\ argv # <<>>
    /\ LET o == Head(argv) IN
       /\ argv' = Tail(argv)
       /\ IF o.opt = "h"
          THEN Exit(1, "usage") /\ UNCHANGED optVars
          ELSE /\ UNCHANGED <<pc, exitcode, err, cnlen, outsel>>
               /\ duration' = (IF o.opt = "d" THEN o.num ELSE duration)
               /\ ekversion' = (IF o.opt = "V" THEN verstr2us(o.num) ELSE ekversion)
               /\ cover_name' = (IF o.opt = "P" THEN o.str ELSE cover_name)
               /\ name_arg' = (IF o.opt = "P" THEN o.str ELSE name_arg)
               /\ includeaddrset' = (IF o.opt = "A" THEN 1 ELSE includeaddrset)
               /\ asetfname' = (IF o.opt = "A" /\ o.num = 1 THEN TRUE ELSE asetfname)
    /\ UNCHANGED <<prog, asetVars, buildVars, outVars, ub>>

\* mutant: the version switch without its default case
InputError_noDefault(v, name, aset, dur) ==
    IF v = V_FF01 /\ name # NULLP THEN "v1_cover_name"
    ELSE IF v = V_FF01 /\ aset # 0 THEN "v1_addrset"
    ELSE IF dur <= 0 THEN "neg_duration"
    ELSE IF dur >= MaxDuration THEN "long_duration"
    ELSE IF dur < MinDuration THEN "short_duration"
    ELSE IF v = V_FF02
         THEN IF name = NULLP THEN "no_cover_name"
              ELSE IF strlen(name) > MAX_ESNI_COVER_NAME THEN "cover_name_too_long"
              ELSE ""
    ELSE ""

\* mutant: without the two checks of version 0xff01 against -P and -A
InputError_noV1Checks(v, name, aset, dur) ==
    IF dur <= 0 THEN "neg_duration"
    ELSE IF dur >= MaxDuration THEN "long_duration"
    ELSE IF dur < MinDuration THEN "short_duration"
    ELSE IF v = V_FF01 THEN ""
    ELSE IF v = V_FF02
         THEN IF name = NULLP THEN "no_cover_name"
              ELSE IF strlen(name) > MAX_ESNI_COVER_NAME THEN "cover_name_too_long"
              ELSE ""
    ELSE "bad_version"

\* the checks between the getopt loop and the address handling: the
\* diagnostic of the first check that fails, "" when all pass
InputError(v, name, aset, dur) ==
    IF v = V_FF01 /\ name # NULLP THEN "v1_cover_name"
    ELSE IF v = V_FF01 /\ aset # 0 THEN "v1_addrset"
    ELSE IF dur <= 0 THEN "neg_duration"
    ELSE IF dur >= MaxDuration THEN "long_duration"
    ELSE IF dur < MinDuration THEN "short_duration"
    ELSE IF v = V_FF01 THEN ""
    ELSE IF v = V_FF02
         THEN IF name = NULLP THEN "no_cover_name"
              ELSE IF strlen(name) > MAX_ESNI_COVER_NAME THEN "cover_name_too_long"
              ELSE ""
    ELSE "bad_version"

\* cover_name after the trailing-dot handling: the byte at cnlen-1 becomes 0
StripDot(name, len) ==
    IF len > 0 /\ name[len] = 46 THEN [name EXCEPT ![len] = 0] ELSE name

CheckInputs ==
    /\ prog = "mk_esnikeys" /\ pc = "getopt" /\ argv = <<>>
    /\ LET e == InputError(ekversion, cover_name, includeaddrset, duration) IN
       IF e # ""
       THEN Exit(1, e) /\ UNCHANGED <<cover_name, cnlen, ub>>
       ELSE /\ UNCHANGED <<exitcode, err>>
            /\ pc' = (IF ekversion = V_FF02 /\ includeaddrset # 0
                      THEN "aset_open" ELSE "key")
            /\ IF ekversion = V_FF02
               THEN /\ cnlen' = strlen(cover_name)
                    /\ cover_name' = StripDot(cover_name, strlen(cover_name))
                    \* an empty name: cover_name[-1] is read (and written when it
                    \* holds a dot), outside the string
                    /\ IF strlen(cover_name) = 0
                       THEN \E t \in {"cover_name_oob_read", "cover_name_oob_write"} :
                               ub' = ub \cup {t}
                       ELSE ub' = ub
               ELSE UNCHANGED <<cover_name, cnlen, ub>>
    /\ UNCHANGED <<prog, argv, ekversion, name_arg, includeaddrset, asetfname,
                   duration, outsel, asetVars, buildVars, outVars>>

----------------------------------------------------------------------------
(* mk_esnikeys: the AddressSet extension *)

\* the address source is opened: the file named with -A, or the resolver
AsetOpen ==
    /\ pc = "aset_open"
    /\ IF asetfname
       THEN \/ Exit(1, "addr_file_open") /\ UNCHANGED alines
            \/ \E f \in AddrFiles :
                  alines' = f /\ pc' = "aset_read" /\ UNCHANGED <<exitcode, err>>
       ELSE IF cnlen = 0
            THEN Exit(1, "no_name_for_lookup") /\ UNCHANGED alines
            ELSE \/ Exit(1, "getaddrinfo") /\ UNCHANGED alines
                 \/ \E r \in ResolverResults :
                       alines' = r /\ pc' = "aset_read" /\ UNCHANGED <<exitcode, err>>
    /\ UNCHANGED <<prog, argv, optVars, ai, ips, tmpebuf, ei, extvals,
                   buildVars, outVars, ub>>

\* line[read-1]='\0'
Zap(line) == SubSeq(line, 1, Len(line) - 1)

\* one round of the reading loop: a line of the file (comment lines skipped,
\* the last character zapped) or an address of the resolver goes to add2alist
AsetRead ==
    /\ pc = "aset_read" /\ ai < Len(alines)
    /\ ai' = ai + 1
    /\ LET line == alines[ai + 1] IN
       IF asetfname /\ line[1] = 35
       THEN UNCHANGED <<pc, exitcode, err, ips>>
       ELSE LET r == add2alist(ips, IF asetfname THEN Zap(line) ELSE line) IN
            IF r.rv < 0
            THEN Exit(1, "too_many_addresses") /\ UNCHANGED ips
            ELSE ips' = r.ips /\ UNCHANGED <<pc, exitcode, err>>
    /\ UNCHANGED <<prog, argv, optVars, alines, tmpebuf, ei, extvals,
                   buildVars, outVars, ub>>

AsetReadDone ==
    /\ pc = "aset_read" /\ ai = Len(alines)
    /\ pc' = "aset_enc"
    /\ UNCHANGED <<prog, argv, optVars, asetVars, buildVars, outVars, ub,
                   exitcode, err>>

\* mutant: the family tags exchanged
AddrRecord_swapped(s) ==
    IF HasColon(SubSeq(s, 1, strlen(s)))
    THEN IF inet_pton6(s) = <<>> THEN <<>> ELSE <<4>> \o inet_pton6(s)
    ELSE IF inet_pton4(s) = <<>> THEN <<>> ELSE <<6>> \o inet_pton4(s)

\* the record of one address: tag and address bytes, <<>> when inet_pton fails
AddrRecord(s) ==
    IF HasColon(SubSeq(s, 1, strlen(s)))
    THEN IF inet_pton6(s) = <<>> THEN <<>> ELSE <<6>> \o inet_pton6(s)
    ELSE IF inet_pton4(s) = <<>> THEN <<>> ELSE <<4>> \o inet_pton4(s)

\* one round of the encoding loop
AsetEncode ==
    /\ pc = "aset_enc" /\ ei < Len(ips)
    /\ ei' = ei + 1
    /\ LET rec == AddrRecord(ips[ei + 1]) IN
       IF rec = <<>>
       THEN Exit(1, "addr_convert") /\ UNCHANGED <<tmpebuf, ub>>
       ELSE /\ tmpebuf' = tmpebuf \o rec
            /\ ub' = (IF Len(tmpebuf \o rec) > MAX_ESNIKEYS_BUFLEN
                      THEN ub \cup {"tmpebuf_overflow"} ELSE ub)
            /\ IF Len(tmpebuf \o rec) > MAX_ESNIKEYS_BUFLEN - 100
               THEN Exit(1, "addr_out_of_space")
               ELSE UNCHANGED <<pc, exitcode, err>>
    /\ UNCHANGED <<prog, argv, optVars, alines, ai, ips, extvals,
                   buildVars, outVars>>

\* extvals for an encoded address set of nelen bytes (extension type 0x1001)
AddrSetExt(val) ==
    LET nelen == Len(val)
        exttype == 4097
    IN  << Hi(nelen + 4), Lo(nelen + 3), Hi(exttype), Lo(exttype),
           Hi(nelen), Lo(nelen) >> \o val

\* after the encoding loop: the extension is wrapped
AsetExt ==
    /\ pc = "aset_enc" /\ ei = Len(ips)
    /\ IF Len(tmpebuf) > 65535
       THEN Exit(1, "ext_too_big") /\ UNCHANGED extvals
       ELSE extvals' = AddrSetExt(tmpebuf) /\ pc' = "key" /\ UNCHANGED <<exitcode, err>>
    /\ UNCHANGED <<prog, argv, optVars, alines, ai, ips, tmpebuf, ei,
                   buildVars, outVars, ub>>

----------------------------------------------------------------------------
(* mk_esnikeys: key pair, structure, checksum, output *)

\* The private key file is read when it exists, else a key pair is generated
\* and the private key written. how = what the environment lets happen.
KeyOutcomes ==
    {"reuse", "new", "read_priv_fail", "rng_fail", "ctx_fail", "keygen_fail",
     "no_point", "priv_open_fail", "priv_write_fail"}

KeyPair ==
    /\ prog = "mk_esnikeys" /\ pc = "key"
    /\ \E how \in KeyOutcomes, k \in Keys :
          /\ keygen' = (how \in {"new", "priv_open_fail", "priv_write_fail"})
          /\ public' = (IF how \in {"reuse", "new", "priv_open_fail", "priv_write_fail"}
                        THEN k ELSE <<>>)
          /\ artifacts' = (IF how \in {"new", "priv_write_fail"}
                           THEN artifacts \cup {"priv"} ELSE artifacts)
          /\ CASE how = "read_priv_fail" -> Exit(1, how)
               [] how = "rng_fail" -> Exit(1, how)
               [] how = "ctx_fail" -> Exit(2, how)
               [] how = "keygen_fail" -> Exit(3, how)
               [] how = "no_point" -> Exit(4, how)
               [] how = "priv_open_fail" -> Exit(5, how)
               [] how = "priv_write_fail" -> Exit(6, how)
               [] OTHER -> pc' = "build" /\ UNCHANGED <<exitcode, err>>
    /\ UNCHANGED <<prog, argv, optVars, asetVars, nb, bbuf, b64, dumps,
                   pubout, fragout, ub>>

\* the low 4 bytes of a time, most significant first
Time32(t) == << (t.hi \div 256) % 256, t.hi % 256, (t.lo \div 256) % 256, t.lo % 256 >>

\* mutant: the curve id of secp256r1 (23) in place of X25519 (29)
KeyShare_curve23(pub) == <<0, 36, 0, 23, 0, 32>> \o SubSeq(pub, 1, 32)

\* the key-share entry: length 36, curve id 29 (X25519), key length 32, key
KeyShare(pub) == <<0, 36, 0, 29, 0, 32>> \o SubSeq(pub, 1, 32)

\* version and checksum space, with the public_name of draft -03
EsniHead(v, name, len) ==
    <<Hi(v), Lo(v)>> \o Zeros(4)
      \o (IF v = V_FF02 THEN <<Hi(len), Lo(len)>> \o SubSeq(name, 1, len) ELSE <<>>)

\* mutant: the padded length follows the clock
EsniTail_clock(nbv, nav) ==
    <<0, 2, 19, 1>> \o <<1, 4 + (nbv.lo % 2)>> \o Zeros(4) \o Time32(nbv) \o Zeros(4) \o Time32(nav)

\* cipher suite list, padded length, not_before, not_after
EsniTail(nbv, nav) ==
    <<0, 2, 19, 1>> \o <<1, 4>> \o Zeros(4) \o Time32(nbv) \o Zeros(4) \o Time32(nav)

\* the extensions field
ExtField(ext) == IF Len(ext) = 0 THEN <<0, 0>> ELSE ext

\* bbuf[0..bblen-1] as mk_esnikeys fills it, the checksum still zero
EsniStruct(v, name, len, pub, nbv, nav, ext) ==
    EsniHead(v, name, len) \o KeyShare(pub) \o EsniTail(nbv, nav) \o ExtField(ext)

\* nb and na are taken, the structure is assembled and dumped ("BP")
Build ==
    /\ prog = "mk_esnikeys" /\ pc = "build"
    /\ \E t \in Times :
          /\ nb' = TimeAdd(t, -1)
          /\ bbuf' = EsniStruct(ekversion, cover_name, cnlen, public,
                                TimeAdd(t, -1), TimeAdd(TimeAdd(t, -1), duration), extvals)
    /\ ub' = (IF Len(bbuf') > MAX_ESNIKEYS_BUFLEN THEN ub \cup {"bbuf_overflow"} ELSE ub)
    /\ dumps' = Append(dumps, [msg |-> "BP", buf |-> bbuf'])
    /\ pc' = "cksum"
    /\ UNCHANGED <<prog, argv, optVars, asetVars, public, keygen, b64, outVars,
                   exitcode, err>>

\* mutant: the checksum is copied to the start of the buffer
PatchCksum_at0(buf, ck) == ck \o SubSeq(buf, 5, Len(buf))

\* mutant: the checksum is computed and not copied into the buffer
PatchCksum_dropped(buf, ck) == buf

\* memcpy(bbuf+2,cksum,4)
PatchCksum(buf, ck) == SubSeq(buf, 1, 2) \o ck \o SubSeq(buf, 7, Len(buf))

\* the checksum is computed and spliced in, the structure dumped ("BP+cksum")
Cksum ==
    /\ pc = "cksum"
    /\ \/ Exit(7, "digest_fail") /\ UNCHANGED <<bbuf, dumps>>
       \/ /\ bbuf' = PatchCksum(bbuf, esni_checksum_gen(bbuf))
          /\ dumps' = Append(dumps, [msg |-> "BP+cksum", buf |-> bbuf'])
          /\ pc' = "pubout"
          /\ UNCHANGED <<exitcode, err>>
    /\ UNCHANGED <<prog, argv, optVars, asetVars, public, keygen, nb, b64,
                   outVars, ub>>

\* the public file is written
PubOut ==
    /\ prog = "mk_esnikeys" /\ pc = "pubout"
    /\ \/ Exit(7, "pub_open_fail") /\ UNCHANGED <<artifacts, pubout>>
       \/ /\ Exit(8, "pub_write_fail")
          /\ artifacts' = artifacts \cup {"pub"}
          /\ \E n \in {0, Len(bbuf) - 1} : pubout' = SubSeq(bbuf, 1, n)
       \/ /\ artifacts' = artifacts \cup {"pub"}
          /\ pubout' = bbuf
          /\ IF ekversion = V_FF02
             THEN pc' = "frag" /\ UNCHANGED <<exitcode, err>>
             ELSE pc' = "done" /\ exitcode' = 0 /\ UNCHANGED err
    /\ UNCHANGED <<prog, argv, optVars, asetVars, buildVars, fragout, ub>>

\* the RRTYPE of openssl/esni.h, a header that is not among the sources at hand
ESNI_RRTYPE == 65439

\* printf("%d"/"%ld") of a number >= 0, and "%02x" of a byte
RECURSIVE DecStr(_)
DecStr(n) == IF n < 10 THEN <<48 + n>> ELSE Append(DecStr(n \div 10), 48 + (n % 10))

Hex2(b) == <<Hex(b \div 16), Hex(b % 16)>>

\* "<owner>. IN TYPE<code> \# <len> "
RRHeader(owner, typecode, blen) ==
    owner \o <<46, 32, 73, 78, 32, 84, 89, 80, 69>> \o DecStr(typecode)
          \o <<32, 92, 35, 32>> \o DecStr(blen) \o <<32>>

\* mutant: a buffer of exactly 16 bytes is folded too
fp_esni_prr_fold16(buf, typecode, owner_name) ==
    LET owner == SubSeq(owner_name, 1, strlen(owner_name))
        blen == Len(buf)
        padding == Rep(32, Len(owner))
        piece(i) ==
            (IF i % 16 = 0 THEN <<10>> \o padding \o Rep(32, 18)
             ELSE IF i % 2 = 0 THEN <<32>> ELSE <<>>) \o Hex2(buf[i + 1])
    IN  IF blen >= 16
        THEN RRHeader(owner, typecode, blen) \o <<40>>
               \o Concat([k \in 1..blen |-> piece(k - 1)]) \o <<32, 41, 10>>
        ELSE RRHeader(owner, typecode, blen)
               \o Concat([k \in 1..blen |-> Hex2(buf[k])]) \o <<10>>

\* fp_esni_prr: the text written for buf, typecode and owner_name (a C string)
fp_esni_prr(buf, typecode, owner_name) ==
    LET owner == SubSeq(owner_name, 1, strlen(owner_name))
        blen == Len(buf)
        padding == Rep(32, Len(owner))
        piece(i) ==     \* i is the 0-based index of the byte
            (IF i % 16 = 0 THEN <<10>> \o padding \o Rep(32, 18)
             ELSE IF i % 2 = 0 THEN <<32>> ELSE <<>>) \o Hex2(buf[i + 1])
    IN  IF blen > 16
        THEN RRHeader(owner, typecode, blen) \o <<40>>
               \o Concat([k \in 1..blen |-> piece(k - 1)]) \o <<32, 41, 10>>
        ELSE RRHeader(owner, typecode, blen)
               \o Concat([k \in 1..blen |-> Hex2(buf[k])]) \o <<10>>

\* version 0xff02: the record is shown on stdout and written to the zone fragment file
FragOut ==
    /\ pc = "frag"
    /\ dumps' = Append(dumps, [msg |-> "BP+cksum as DNS RR", buf |-> bbuf])
    /\ \/ Exit(7, "frag_open_fail") /\ UNCHANGED <<artifacts, fragout>>
       \/ /\ artifacts' = artifacts \cup {"frag"}
          /\ fragout' = fp_esni_prr(bbuf, ESNI_RRTYPE, cover_name)
          /\ pc' = "done" /\ exitcode' = 0 /\ UNCHANGED err
    /\ UNCHANGED <<prog, argv, optVars, asetVars, public, keygen, nb, bbuf, b64,
                   pubout, ub>>

----------------------------------------------------------------------------
(* echo: echo_main and mk_echoconfig *)

\* one round of the opt_next loop
EchoOptNext ==
    /\ prog = "echo" /\ pc = "getopt" /\ argv # <<>>
    /\ LET o == Head(argv) IN
       /\ argv' = Tail(argv)
       /\ IF o.opt = "help"
          THEN Exit(0, "help") /\ UNCHANGED optVars
          ELSE /\ UNCHANGED <<pc, exitcode, err, cnlen, includeaddrset, asetfname, duration>>
               /\ ekversion' = (IF o.opt = "echo_version" THEN verstr2us(o.num)
                                ELSE ekversion)
               /\ cover_name' = (IF o.opt = "public_name" THEN o.str ELSE cover_name)
               /\ name_arg' = (IF o.opt = "public_name" THEN o.str ELSE name_arg)
               /\ outsel' = (IF o.opt \in {"pubout", "privout", "pemout"}
                             THEN outsel \cup {o.opt} ELSE outsel)
    /\ UNCHANGED <<prog, asetVars, buildVars, outVars, ub>>

\* the version switch of echo_main: is the version one echo_main goes on with
EchoVersionOk(v) == v = V_FF03

EchoCheck ==
    /\ prog = "echo" /\ pc = "getopt" /\ argv = <<>>
    /\ IF EchoVersionOk(ekversion)
       THEN pc' = "mk_echoconfig" /\ UNCHANGED <<exitcode, err>>
       ELSE Exit(0, "unsupported_version")
    /\ UNCHANGED <<prog, argv, optVars, asetVars, buildVars, outVars, ub>>

\* pnlen
PnLen(v, name) == IF v = V_FF03 /\ name # NULLP THEN strlen(name) ELSE 0

\* bbuf[0..bblen-1] as mk_echoconfig fills it (extlen is always 0)
EchoStruct(v, name, len, pub) ==
    <<Hi(v), Lo(v)>>
      \o (IF v = V_FF01 \/ v = V_FF02 THEN Zeros(4) ELSE <<>>)
      \o (IF len > 0 /\ (v = V_FF02 \/ v = V_FF03)
          THEN <<Hi(len), Lo(len)>> \o SubSeq(name, 1, len) ELSE <<>>)
      \o KeyShare(pub)
      \o <<(HPKE_KEM_ID_25519 \div 16) % 256, HPKE_KEM_ID_25519 % 16>>
      \o <<0, 2, 19, 1>> \o <<1, 4>> \o <<0, 0>>

\* the call of mk_echoconfig and the test of its return value in echo_main.
\* A write past the end of bbuf or of echoconfig is undefined behaviour: the
\* run may stop there (pc "crash") or go on.
MkEchoConfig ==
    /\ prog = "echo" /\ pc = "mk_echoconfig"
    /\ IF ekversion # V_FF03
       THEN Exit(0, "mk_echoconfig_0") /\ UNCHANGED <<public, keygen, bbuf, b64, ub>>
       ELSE \/ Exit(0, "hpke_kg_fail") /\ UNCHANGED <<public, keygen, bbuf, b64, ub>>
            \/ \E k \in Keys :
                 LET pnlen == PnLen(ekversion, cover_name)
                     st == EchoStruct(ekversion, cover_name, pnlen, k)
                     enc == EVP_EncodeBlock(st)
                     over == (IF Len(st) > MAX_ECHOCONFIGS_BUFLEN
                              THEN {"bbuf_overflow"} ELSE {})
                         \cup (IF Len(enc) + 1 > MAX_ECHOCONFIGS_BUFLEN
                               THEN {"echoconfig_overflow"} ELSE {})
                 IN  /\ public' = k /\ keygen' = TRUE
                     /\ bbuf' = st /\ b64' = enc
                     /\ ub' = ub \cup over
                     /\ \/ over # {} /\ pc' = "crash" /\ UNCHANGED <<exitcode, err>>
                        \/ IF Len(enc) >= MAX_ECHOCONFIGS_BUFLEN - 1
                           THEN Exit(0, "mk_echoconfig_181")
                           ELSE pc' = "echo_pub" /\ UNCHANGED <<exitcode, err>>
    /\ cnlen' = PnLen(ekversion, cover_name)
    /\ UNCHANGED <<prog, argv, ekversion, cover_name, name_arg, includeaddrset,
                   asetfname, duration, outsel, asetVars, nb, dumps, outVars>>

\* one output file of echo_main: written when asked for (BIO_new_file may fail)
EchoFile(at, wanted, role, next) ==
    /\ prog = "echo" /\ pc = at
    /\ IF wanted
       THEN \/ Exit(0, role \o "_open_fail") /\ UNCHANGED <<artifacts, pubout>>
            \/ /\ artifacts' = artifacts \cup {role}
               /\ pubout' = (IF role = "pub" THEN Append(b64, 10) ELSE pubout)
               /\ IF next = "done"
                  THEN pc' = "done" /\ exitcode' = 1 /\ UNCHANGED err
                  ELSE pc' = next /\ UNCHANGED <<exitcode, err>>
       ELSE /\ UNCHANGED <<artifacts, pubout>>
            /\ IF next = "done"
               THEN pc' = "done" /\ exitcode' = 1 /\ UNCHANGED err
               ELSE pc' = next /\ UNCHANGED <<exitcode, err>>
    /\ UNCHANGED <<prog, argv, optVars, asetVars, buildVars, fragout, ub>>

EchoWritePub == EchoFile("echo_pub", "pubout" \in outsel, "pub", "echo_priv")

EchoWritePriv == EchoFile("echo_priv", "privout" \in outsel, "priv", "echo_pem")

EchoWritePem ==
    EchoFile("echo_pem", "privout" \notin outsel /\ "pubout" \notin outsel, "pem", "done")

----------------------------------------------------------------------------

Next ==
    \/ Getopt \/ CheckInputs
    \/ AsetOpen \/ AsetRead \/ AsetReadDone \/ AsetEncode \/ AsetExt
    \/ KeyPair \/ Build \/ Cksum \/ PubOut \/ FragOut
    \/ EchoOptNext \/ EchoCheck \/ MkEchoConfig
    \/ EchoWritePub \/ EchoWritePriv \/ EchoWritePem

Spec == Init /\ [][Next]_vars

----------------------------------------------------------------------------
(* Properties *)

Esni == prog = "mk_esnikeys"

Echo == prog = "echo"

\* a structure stands in bbuf: assembled, and the build did not end in failure
\* inside the builder
Built ==
    /\ bbuf # <<>>
    /\ pc # "crash"
    /\ err # "mk_echoconfig_181"

\* the 16-bit big-endian number at bytes i, i+1 (1-based) of buf
U16(buf, i) == buf[i] * 256 + buf[i + 1]

\* C1: every ESNIKeys structure written to the public file carries, at offsets
\* 2..5, the first 4 bytes of the digest of that same structure taken with the
\* bytes at offsets 2..5 set to zero.
C1_ChecksumReproduces ==
    (Esni /\ "pub" \in artifacts /\ err # "pub_write_fail") =>
        /\ Len(pubout) >= 6
        /\ SubSeq(pubout, 3, 6) =
             SubSeq(SHA256([i \in 1..Len(pubout) |->
                               IF i \in 3..6 THEN 0 ELSE pubout[i]]), 1, 4)

C1_Witness ==
    /\ Esni /\ pc = "done" /\ ekversion = V_FF02
    /\ Len(ips) = 2 /\ cnlen = MAX_ESNI_COVER_NAME
    /\ pubout = bbuf /\ SubSeq(pubout, 3, 6) # <<0, 0, 0, 0>>

\* C2 (as claimed): whenever a structure is built for a version with a name
\* field and a name of length L <= 254 was given, the structure holds at the
\* name position (offset 6 for 0xff02, offset 2 for 0xff03) the 2-byte
\* big-endian length L followed by the L bytes of the name as given.
C2_NameRoundTrip ==
    (Built /\ name_arg # NULLP /\ Len(name_arg) <= 254
           /\ ((Esni /\ ekversion = V_FF02) \/ (Echo /\ ekversion = V_FF03))) =>
        LET off == IF Esni THEN 6 ELSE 2
            L == Len(name_arg)
        IN  /\ Len(bbuf) >= off + 2 + L
            /\ U16(bbuf, off + 1) = L
            /\ SubSeq(bbuf, off + 3, off + 2 + L) = name_arg

\* where the key-share entry starts (0-based offset): after the name field when
\* the structure has one, else after the checksum (0xff01) or the version tag
KeyShareOffset ==
    IF Esni
    THEN IF ekversion = V_FF02 THEN 8 + U16(bbuf, 7) ELSE 6
    ELSE IF cnlen > 0 THEN 4 + U16(bbuf, 3) ELSE 2

ExtInStruct == SubSeq(bbuf, Len(bbuf) - Len(extvals) + 1, Len(bbuf))

\* number of entries of ips with (c = TRUE) or without (c = FALSE) a colon
CountFamily(c) == Cardinality({k \in 1..Len(ips) : HasColon(ips[k]) = c})

\* C4 (as claimed): the extension framing is length-consistent: the outer
\* length is the number of bytes after it (type, inner length, value), the
\* inner length is the number of value bytes, 5 per IPv4 and 17 per IPv6 entry.
C4_ExtLengthsConsistent ==
    (Esni /\ Built /\ extvals # <<>>) =>
        LET e == ExtInStruct IN
        /\ e = extvals
        /\ U16(e, 1) = Len(e) - 2
        /\ U16(e, 5) = Len(e) - 6
        /\ U16(e, 5) = 5 * CountFamily(FALSE) + 17 * CountFamily(TRUE)

\* the strings handed to add2alist so far, by position in the input
Skipped(i) == asetfname /\ alines[i][1] = 35

Handed(i) == IF asetfname THEN Zap(alines[i]) ELSE alines[i]

HandedIdx == {i \in 1..ai : ~Skipped(i)}

FirstIdx(s) ==
    CHOOSE i \in HandedIdx : Handed(i) = s /\ \A j \in HandedIdx : Handed(j) = s => i <= j

\* C5: when the AddressSet extension has been wrapped, it has type bytes 10 01
\* and its value is, for the addresses of the list in order (which is the order
\* of their first occurrence in the input), tag 04 and 4 address bytes for a
\* text without colon, tag 06 and 16 address bytes for a text with a colon;
\* 10.0.0.1 and ::1 give 04 0a 00 00 01 06 00 .. 00 01. The structure built
\* later ends with this extension, unchanged.
C5_AddrSetValue ==
    /\ (Esni /\ pc = "key" /\ extvals # <<>>) =>
        LET rec == [k \in 1..Len(ips) |->
                      IF \E j \in 1..Len(ips[k]) : ips[k][j] = 58
                      THEN <<6>> \o inet_pton6(ips[k])
                      ELSE <<4>> \o inet_pton4(ips[k])]
            first == [k \in 1..Len(ips) |-> FirstIdx(ips[k])]
        IN  /\ SubSeq(extvals, 3, 4) = <<16, 1>>
            /\ SubSeq(extvals, 7, Len(extvals)) = Concat(rec)
            /\ \A k \in 1..Len(ips) :
                  Len(rec[k]) = (IF HasColon(ips[k]) THEN 17 ELSE 5)
            /\ \A k \in 1..(Len(ips) - 1) : first[k] < first[k + 1]
            /\ (ips = <<Addr4(1), Addr6(1)>> =>
                  SubSeq(extvals, 7, Len(extvals))
                    = <<4, 10, 0, 0, 1, 6>> \o Zeros(15) \o <<1>>)
    /\ (Esni /\ Built /\ extvals # <<>>) => ExtInStruct = extvals

C5_Witness ==
    /\ Esni /\ pc = "key" /\ ips = <<Addr6(1), Addr4(1)>>
    /\ alines = <<Addr6(1), Addr4(1), Addr6(1)>>
    /\ SubSeq(extvals, 3, Len(extvals))
         = <<16, 1, 0, 22, 6>> \o Zeros(15) \o <<1, 4, 10, 0, 0, 1>>

\* the distinct strings handed to add2alist so far
HandedSet == {Handed(i) : i \in HandedIdx}

ListSet == {ips[k] : k \in 1..Len(ips)}

\* C6 (as claimed): de-duplication is by exact string match: the list holds
\* exactly one entry for each distinct string handed to add2alist.
C6_ExactDedup ==
    (Esni /\ err # "too_many_addresses") =>
        /\ ListSet = HandedSet
        /\ Cardinality(ListSet) = Len(ips)

\* all the input has been through the reading loop, or the loop ended the run
ReadingOver ==
    /\ Esni
    /\ pc \notin {"getopt", "aset_open", "aset_read"}
    /\ err \notin {"addr_file_open", "getaddrinfo", "no_name_for_lookup"}
    /\ ekversion = V_FF02 /\ includeaddrset # 0
    /\ InputError(ekversion, cover_name, includeaddrset, duration) = ""

\* the distinct strings of the whole input
InputSet ==
    {(IF asetfname THEN Zap(alines[i]) ELSE alines[i]) :
        i \in {j \in 1..Len(alines) : ~(asetfname /\ alines[j][1] = 35)}}

\* C7 (as claimed): an input of 17 pairwise distinct address strings always
\* ends with the too-many-addresses failure and no structure; an input of at
\* most 16 distinct strings is never rejected for count; the list never holds
\* more than 16 entries.
C7_SeventeenRejected ==
    /\ Len(ips) <= MAX_ESNI_ADDRS
    /\ (ReadingOver /\ Cardinality(InputSet) >= 17) =>
          (err = "too_many_addresses" /\ bbuf = <<>>)
    /\ (Esni /\ Cardinality(InputSet) <= 16) => err # "too_many_addresses"

\* the versions a builder supports
Supported(v) == IF Esni THEN v \in {V_FF01, V_FF02} ELSE v = V_FF03

\* C8: once the options are read and the version checked, a version outside
\* the supported set (0 included) has ended the run in failure, with no key
\* generated, no structure built and no artifact written.
C8_UnsupportedVersionFails ==
    (argv = <<>> /\ pc # "getopt" /\ ~Supported(ekversion)) =>
        /\ pc = "exit"
        /\ exitcode = (IF Esni THEN 1 ELSE 0)
        /\ ~keygen /\ public = <<>> /\ bbuf = <<>>
        /\ artifacts = {} /\ pubout = <<>> /\ fragout = <<>>

C8_Witness ==
    /\ Esni /\ pc = "exit" /\ err = "bad_version" /\ ekversion = 0
    /\ ~keygen /\ artifacts = {}

\* C9: version 0xff01 together with a cover name or an AddressSet request, in
\* whatever order the options came, has ended the run in failure once the
\* inputs are checked: no key, no structure, no artifact.
C9_V1NameRejected ==
    (Esni /\ argv = <<>> /\ pc # "getopt" /\ ekversion = V_FF01
          /\ (name_arg # NULLP \/ includeaddrset # 0)) =>
        /\ pc = "exit" /\ exitcode = 1
        /\ ~keygen /\ bbuf = <<>>
        /\ artifacts = {} /\ pubout = <<>>

C9_Witness ==
    /\ Esni /\ pc = "exit" /\ err = "v1_cover_name" /\ ekversion = V_FF01
    /\ name_arg = NameA /\ includeaddrset = 0 /\ artifacts = {}

\* C10 (as claimed): no write goes past the end of bbuf, tmpebuf or the
\* Base64 destination; a structure that would not fit makes the build fail.
C10_WritesInBounds ==
    /\ ub \cap {"bbuf_overflow", "tmpebuf_overflow", "echoconfig_overflow"} = {}
    /\ Len(bbuf) <= (IF Esni THEN MAX_ESNIKEYS_BUFLEN ELSE MAX_ECHOCONFIGS_BUFLEN)
    /\ Len(tmpebuf) <= MAX_ESNIKEYS_BUFLEN
    /\ Len(b64) + 1 <= MAX_ECHOCONFIGS_BUFLEN

\* C11 (as claimed): failure is atomic: when a run has ended in failure (an
\* error exit of mk_esnikeys, a return 0 of echo_main), no output file has
\* been created or written, wholly or in part.
C11_FailureAtomic ==
    (pc = "exit") => (artifacts = {} /\ pubout = <<>> /\ fragout = <<>>)

\* the structure of mk_esnikeys is assembled and the checksum step has succeeded
Patched == Esni /\ bbuf # <<>> /\ pc # "cksum" /\ err # "digest_fail"

\* s is a prefix of t
IsPrefix(s, t) == Len(s) <= Len(t) /\ s = SubSeq(t, 1, Len(s))

\* C12 (as claimed): whatever mk_esnikeys has emitted of the structure, the
\* dumps on standard output included, shows the checksum patched in: no
\* emission carries the zero placeholder.
C12_NoPlaceholderEmitted ==
    Esni =>
        /\ \A k \in 1..Len(dumps) :
              SubSeq(dumps[k].buf, 3, 6) = esni_checksum_gen(dumps[k].buf)
        /\ (pubout # <<>> /\ err # "pub_write_fail") =>
              SubSeq(pubout, 3, 6) = esni_checksum_gen(pubout)

\* C12 (amended): the checksum is patched into bytes 2..5 once, after the last
\* field is in place and before anything is written to the public file or the
\* zone fragment; the patch changes no other byte, and from then on no byte
\* of the structure changes: the dumps that follow, the public file and the
\* zone fragment all show the same patched structure. The one emission made
\* before the patch is the dump "BP" on standard output, which shows the
\* complete structure with the zero placeholder.
C12_ChecksumBeforeFiles ==
    (Esni /\ bbuf # <<>>) =>
        /\ Len(dumps) >= 1
        /\ dumps[1].msg = "BP"
        /\ dumps[1].buf = ZeroCksum(bbuf)
        /\ Cardinality({k \in 1..Len(dumps) : dumps[k].msg = "BP+cksum"}) <= 1
        /\ ~Patched =>
              /\ bbuf = dumps[1].buf /\ Len(dumps) = 1
              /\ artifacts \subseteq {"priv"} /\ pubout = <<>> /\ fragout = <<>>
        /\ Patched =>
              /\ pc = "pubout" => SubSeq(bbuf, 3, 6) = esni_checksum_gen(bbuf)
              /\ Len(dumps) >= 2 /\ dumps[2].msg = "BP+cksum"
              /\ \A k \in 2..Len(dumps) : dumps[k].buf = bbuf
              /\ IsPrefix(pubout, bbuf)
              /\ (err # "pub_write_fail" /\ "pub" \in artifacts) => pubout = bbuf
              /\ fragout # <<>> => fragout = fp_esni_prr(bbuf, ESNI_RRTYPE, cover_name)

C12_Witness ==
    /\ Esni /\ pc = "done" /\ ekversion = V_FF02 /\ Len(dumps) = 3
    /\ SubSeq(dumps[1].buf, 3, 6) = Zeros(4)
    /\ SubSeq(bbuf, 3, 6) # Zeros(4)
    /\ dumps[3].buf = bbuf /\ pubout = bbuf /\ fragout # <<>>

\* the structure a build of mk_esnikeys with the inputs of this run gives when
\* time(0) returns t (checksum field zero)
EsniBuiltAt(t) ==
    EsniStruct(ekversion, cover_name, cnlen, public,
               TimeAdd(t, -1), TimeAdd(TimeAdd(t, -1), duration), extvals)

\* C13 (as claimed): the structure is the same whenever the build runs: the
\* ESNIKeys structure of this run, its checksum apart, is the one a build with
\* the same version, name, key, duration and address list gives at any other
\* time; the ECHOConfig structure depends on version, name and key only.
C13_TimeIndependent ==
    Built =>
        IF Esni
        THEN \A t \in Times : ZeroCksum(bbuf) = EsniBuiltAt(t)
        ELSE bbuf = EchoStruct(ekversion, cover_name, cnlen, public)

\* the bytes of the ESNIKeys structure, checksum field zero, written out as a
\* function of version v, name field content nm, key pub, not-before time t0,
\* duration d and extension bytes ext
EsniBytes(v, nm, pub, t0, d, ext) ==
    LET t1 == TimeAdd(t0, d)
        t32(t) == <<(t.hi \div 256) % 256, t.hi % 256, t.lo \div 256, t.lo % 256>>
    IN  <<v \div 256, v % 256, 0, 0, 0, 0>>
          \o (IF v = V_FF02 THEN <<Len(nm) \div 256, Len(nm) % 256>> \o nm ELSE <<>>)
          \o <<0, 36, 0, 29, 0, 32>> \o pub
          \o <<0, 2, 19, 1, 1, 4>>
          \o <<0, 0, 0, 0>> \o t32(t0) \o <<0, 0, 0, 0>> \o t32(t1)
          \o (IF ext = <<>> THEN <<0, 0>> ELSE ext)

\* the bytes of the ECHOConfig structure as a function of name nm and key pub
EchoBytes(nm, pub) ==
    <<255, 3>>
      \o (IF Len(nm) > 0 THEN <<Len(nm) \div 256, Len(nm) % 256>> \o nm ELSE <<>>)
      \o <<0, 36, 0, 29, 0, 32>> \o pub
      \o <<HPKE_KEM_ID_25519 \div 16, HPKE_KEM_ID_25519 % 16>>
      \o <<0, 2, 19, 1, 1, 4, 0, 0>>

\* C13 (amended): the structure is a function of the inputs and, for ESNIKeys,
\* of the time of the build: the ESNIKeys bytes are determined by version, name
\* field, key, duration, extension bytes and the not-before time time(0)-1
\* (the checksum by those bytes); the ECHOConfig bytes, and their Base64 text,
\* by name and key alone.
C13_FunctionOfInputsAndTime ==
    Built =>
        IF Esni
        THEN ZeroCksum(bbuf)
               = EsniBytes(ekversion, SubSeq(cover_name, 1, cnlen), public,
                           nb, duration, extvals)
        ELSE /\ bbuf = EchoBytes(IF cover_name = NULLP THEN <<>> ELSE cover_name, public)
             /\ b64 = EVP_EncodeBlock(bbuf)

C13_Witness ==
    /\ Esni /\ pc = "done" /\ ekversion = V_FF02 /\ extvals # <<>>
    /\ nb = TimeT(65535, 64535)
    /\ bbuf # PatchCksum(EsniBuiltAt(TimeT(23688, 18432)),
                         esni_checksum_gen(EsniBuiltAt(TimeT(23688, 18432))))
    /\ bbuf = PatchCksum(EsniBuiltAt(TimeT(65535, 64536)),
                         esni_checksum_gen(EsniBuiltAt(TimeT(65535, 64536))))

----------------------------------------------------------------------------
(* fp_esni_prr on its own: the rendering of any buffer for any owner name *)

MaxBufLen == 34     \* longest buffer of the systematic rendering inputs

ExampleCom == <<101, 120, 97, 109, 112, 108, 101, 46, 99, 111, 109>>

\* buffers of every length up to MaxBufLen, in two fillings, and one of 0x44 bytes
PrrBufs ==
       {[i \in 1..n |-> (37 * i + 101 * p) % 256] : n \in 0..MaxBufLen, p \in {0, 1}}
  \cup {[i \in 1..68 |-> (251 * i) % 256]}

PrrOwners == {NameA, ExampleCom}

PrrInit ==
    /\ prog = "fp_esni_prr"
    /\ pc = "render"
    /\ bbuf \in PrrBufs
    /\ cover_name \in PrrOwners
    /\ argv = <<>> /\ ekversion = V_FF02 /\ name_arg = NULLP /\ cnlen = 0
    /\ includeaddrset = 0 /\ asetfname = FALSE /\ duration = DefaultDuration
    /\ outsel = {} /\ alines = <<>> /\ ai = 0 /\ ips = <<>> /\ tmpebuf = <<>>
    /\ ei = 0 /\ extvals = <<>> /\ public = <<>> /\ keygen = FALSE
    /\ nb = TimeT(0, 0) /\ b64 = <<>> /\ dumps = <<>> /\ artifacts = {}
    /\ pubout = <<>> /\ fragout = <<>> /\ ub = {} /\ exitcode = -1 /\ err = ""

\* the call fp_esni_prr(fp, msg, buf, blen, 0, typecode, owner_name)
PrrRender ==
    /\ prog = "fp_esni_prr" /\ pc = "render"
    /\ fragout' = fp_esni_prr(bbuf, ESNI_RRTYPE, cover_name)
    /\ pc' = "done"
    /\ UNCHANGED <<prog, argv, optVars, asetVars, buildVars, artifacts, pubout,
                   ub, exitcode, err>>

PrrNext == PrrRender

SpecPrr == PrrInit /\ [][PrrNext]_vars

\* number of positions after position from where text holds the character ch
CountAfter(text, from, ch) == Cardinality({k \in (from + 1)..Len(text) : text[k] = ch})

\* C14: the text fp_esni_prr has written for a buffer of n bytes and an owner
\* name of pad characters, after the header "<owner>. IN TYPE<code> \# <n> ".
\* n > 16: the header line ends with "(", every byte whose index is a multiple
\* of 16 starts a new line indented by pad + 18 spaces (ceil(n/16) data
\* lines), every other even-indexed byte has exactly one space before it, odd
\* bytes none, and the text ends with " )" and a newline. n <= 16: the digits
\* follow the header on its line, without space, fold or parenthesis. Every
\* byte appears once, in order, as two lowercase hexadecimal digits.
C14_ZoneFragmentLayout ==
    (prog = "fp_esni_prr" /\ pc = "done") =>
        LET text == fragout
            n == Len(bbuf)
            pad == strlen(cover_name)
            hl == Len(RRHeader(SubSeq(cover_name, 1, pad), ESNI_RRTYPE, n))
            lower(d) == IF d < 10 THEN 48 + d ELSE 97 + (d - 10)
            digitsAt(p, b) == text[p] = lower(b \div 16) /\ text[p + 1] = lower(b % 16)
            \* where the digits of byte i (0-based) start in the folded form
            pos(i) == hl + 1 + ((i \div 16) + 1) * (19 + pad) + ((i \div 2) - (i \div 16))
                         + 2 * i + 1
            lines == (n + 15) \div 16
        IN  /\ Len(text) > hl
            /\ SubSeq(text, 1, hl) = RRHeader(SubSeq(cover_name, 1, pad), ESNI_RRTYPE, n)
            /\ IF n > 16
               THEN /\ text[hl + 1] = 40
                    /\ Len(text) = pos(n - 1) + 1 + 3
                    /\ SubSeq(text, Len(text) - 2, Len(text)) = <<32, 41, 10>>
                    /\ \A i \in 0..(n - 1) :
                          /\ digitsAt(pos(i), bbuf[i + 1])
                          /\ IF i % 16 = 0
                             THEN /\ text[pos(i) - 19 - pad] = 10
                                  /\ \A k \in (pos(i) - 18 - pad)..(pos(i) - 1) : text[k] = 32
                             ELSE IF i % 2 = 0
                             THEN text[pos(i) - 1] = 32 /\ pos(i) = pos(i - 1) + 3
                             ELSE pos(i) = pos(i - 1) + 2
                    /\ CountAfter(text, hl, 10) = lines + 1
                    /\ CountAfter(text, hl, 32)
                         = lines * (pad + 18) + (((n + 1) \div 2) - lines) + 1
                    /\ CountAfter(text, hl, 40) = 1 /\ CountAfter(text, hl, 41) = 1
               ELSE /\ Len(text) = hl + 2 * n + 1
                    /\ text[Len(text)] = 10
                    /\ \A i \in 0..(n - 1) : digitsAt(hl + 2 * i + 1, bbuf[i + 1])
                    /\ CountAfter(text, hl, 10) = 1
                    /\ CountAfter(text, hl, 32) = 0
                    /\ CountAfter(text, hl, 40) = 0 /\ CountAfter(text, hl, 41) = 0

C14_Witness ==
    /\ prog = "fp_esni_prr" /\ pc = "done"
    /\ Len(bbuf) = 68 /\ cover_name = ExampleCom
    /\ CountAfter(fragout, 0, 10) = 6
    /\ SubSeq(fragout, Len(fragout) - 7, Len(fragout)) = <<32, 98, 49, 97, 99, 32, 41, 10>>

----------------------------------------------------------------------------

\* C15: every structure built for a supported version starts with the version
\* tag, high byte first (ff 01 or ff 02 from mk_esnikeys, ff 03 from
\* mk_echoconfig), before and after the checksum patch, and so does every
\* emission of it: the dumps, the public file, the first two bytes rendered in
\* the zone fragment, and the Base64 text (which then starts with "/w").
C15_VersionTagFirst ==
    Built =>
        LET tag == <<ekversion \div 256, ekversion % 256>> IN
        /\ tag \in (IF Esni THEN {<<255, 1>>, <<255, 2>>} ELSE {<<255, 3>>})
        /\ SubSeq(bbuf, 1, 2) = tag
        /\ \A k \in 1..Len(dumps) : SubSeq(dumps[k].buf, 1, 2) = tag
        /\ Len(pubout) >= 2 /\ Esni => SubSeq(pubout, 1, 2) = tag
        /\ Len(b64) >= 2 => SubSeq(b64, 1, 2) = <<47, 119>>
        /\ fragout # <<>> =>
              LET p == Len(RRHeader(SubSeq(cover_name, 1, strlen(cover_name)),
                                    ESNI_RRTYPE, Len(bbuf)))
                         + 1 + 19 + strlen(cover_name)
              IN  SubSeq(fragout, p + 1, p + 4) = <<102, 102, 48, 50>>

C15_Witness ==
    /\ Esni /\ pc = "done" /\ ekversion = V_FF01
    /\ SubSeq(bbuf, 1, 2) = <<255, 1>> /\ SubSeq(bbuf, 3, 6) # Zeros(4)
    /\ SubSeq(dumps[1].buf, 1, 6) = <<255, 1, 0, 0, 0, 0>>
    /\ pubout = bbuf

\* C16 (as claimed): in an 0xff03 structure the two bytes after the 32 key
\* bytes are the KEM identifier, high byte id / 256 then low byte id mod 256,
\* that is 00 20 for X25519; what follows is the cipher suite list, the padded
\* length and the extensions length, with no validity window.
C16_KemIdBigEndian ==
    (Echo /\ Built) =>
        LET k == KeyShareOffset + 38 IN
        /\ Len(bbuf) = k + 10
        /\ bbuf[k + 1] = HPKE_KEM_ID_25519 \div 256
        /\ bbuf[k + 2] = HPKE_KEM_ID_25519 % 256
        /\ SubSeq(bbuf, k + 1, k + 2) = <<0, 32>>
        /\ SubSeq(bbuf, k + 3, k + 10) = <<0, 2, 19, 1, 1, 4, 0, 0>>

\* the 8-byte big-endian field at bytes i+1 .. i+8 of buf, as a time value
\* (defined when the upper two bytes are zero)
Field64(buf, i) ==
    TimeT(((buf[i + 3] * 256 + buf[i + 4]) * 256 + buf[i + 5]) * 256 + buf[i + 6],
          buf[i + 7] * 256 + buf[i + 8])

\* C17 (as claimed): a structure is built only for 3600 <= duration <
\* 314496000, and its two 8-byte fields after the padded length have the high
\* 4 bytes zero and hold, as 64-bit numbers, not_before = time - 1 and
\* not_after = not_before + duration, whatever the time of the build.
C17_ValidityWindow ==
    (Esni /\ bbuf # <<>>) =>
        LET o == KeyShareOffset + 38 + 6 IN
        /\ duration >= 3600 /\ duration < 314496000
        /\ SubSeq(bbuf, o + 1, o + 4) = Zeros(4)
        /\ SubSeq(bbuf, o + 9, o + 12) = Zeros(4)
        /\ Field64(bbuf, o) = nb
        /\ Field64(bbuf, o + 8) = TimeAdd(nb, duration)

\* the name given, without its trailing dot
Canonical(name) ==
    IF Len(name) > 0 /\ name[Len(name)] = 46 THEN SubSeq(name, 1, Len(name) - 1) ELSE name

\* C18 (as claimed): for 0xff02 the name field of the structure holds the
\* name given without its trailing dot, with that name's length as prefix, the
\* zone fragment uses the same name as owner, the name field holds no
\* terminator byte, and an empty name is handled without an access outside
\* the string.
C18_TrailingDotCanonical ==
    (Esni /\ ekversion = V_FF02 /\ name_arg # NULLP) =>
        /\ ub \cap {"cover_name_oob_read", "cover_name_oob_write"} = {}
        /\ Built =>
              LET canon == Canonical(name_arg) IN
              /\ U16(bbuf, 7) = Len(canon)
              /\ SubSeq(bbuf, 9, 8 + Len(canon)) = canon
              /\ \A i \in 9..(8 + U16(bbuf, 7)) : bbuf[i] # 0
              /\ fragout # <<>> =>
                    SubSeq(fragout, 1, Len(canon) + 4) = canon \o <<46, 32, 73, 78>>

====
